---- MODULE Spec2Model ----
(***************************************************************************)
(* Model of api/index.js: the daily-kline synchroniser.                    *)
(*                                                                         *)
(*   fetchKlines(symbol, startTime, endTime)   the paginated fetcher       *)
(*   handler(_, res)                           one synchronisation run     *)
(*                                                                         *)
(* Instants are counted in ticks; a day is TicksPerDay ticks, so that      *)
(* instants that are not day-aligned (Date.now()) exist.  The literal 1000 *)
(* of the source (the row limit of a request and the number of days of a   *)
(* chunk) is scaled to Thousand, and the 365 days of a year to             *)
(* DaysPerYear, which keeps the ratio of horizon to chunk between 1 and 2. *)
(***************************************************************************)
EXTENDS Integers, Sequences, FiniteSets

VARIABLES
    pc,          \* position of the handler / of fetchKlines / of the planner
    validPairs,  \* handler: [loaded, set]; loaded = FALSE is the JS null
    snaps,       \* handler: rows of the snapshot query, by market_cap descending
    snapFailed,  \* handler: the snapshot query returned snapErr
    pairs,       \* handler: target pairs after filtering
    now,         \* handler: Date.now()
    globalStart, \* handler: now - FIVE_YEARS_MS
    si,          \* handler: index in pairs of the symbol being processed
    earliestMs,  \* handler: earliest stored open_time, or Null
    latestMs,    \* handler: latest stored open_time, or Null
    tasks,       \* handler: the windows of the current symbol
    ti,          \* handler: index in tasks of the window being fetched
    store,       \* table binance_ohlcv_1d: pair id -> set of stored open_time
    held,        \* remote API: pair id -> set of open_time it holds
    responses,   \* what was sent through res, in order
    log,         \* store and remote calls issued by the handler, in order
    rangeFailed, \* pair ids one of whose range queries hit a store failure
    symbol,      \* fetchKlines: the pair id
    startTime,   \* fetchKlines: parameter
    endTime,     \* fetchKlines: parameter
    cursor,      \* fetchKlines: local
    all,         \* fetchKlines: local, the rows accumulated
    reqs,        \* fetchKlines: the requests issued, [startTime, endTime]
    resps,       \* fetchKlines: the responses received, in order
    failedAt     \* fetchKlines: index of the request that failed, 0 if none

vars == <<pc, validPairs, snaps, snapFailed, pairs, now, globalStart, si,
          earliestMs, latestMs, tasks, ti, store, held, responses, log,
          rangeFailed, symbol, startTime, endTime, cursor, all, reqs, resps,
          failedAt>>

handlerVars == <<validPairs, snaps, snapFailed, pairs, now, globalStart, si,
                 earliestMs, latestMs, tasks, ti, store, responses, log,
                 rangeFailed>>

fetchVars == <<symbol, startTime, endTime, cursor, all, reqs, resps, failedAt>>

----------------------------------------------------------------------------
(* Bounds of the model *)

TicksPerDay == 2      \* ticks in a day
Thousand    == 3      \* stands for the literal 1000 (rows of a page, days of a chunk)
DaysPerYear == 1      \* stands for the literal 365
MaxDays     == 8      \* fetchKlines alone: windows lie within day 0 .. day MaxDays

----------------------------------------------------------------------------
(* Values *)

Null    == -1         \* JS null
Invalid == -2         \* JS undefined / NaN / Invalid Date

ONE_DAY_MS    == TicksPerDay
FIVE_YEARS_MS == 5 * DaysPerYear * ONE_DAY_MS

Min(a, b) == IF a < b THEN a ELSE b

MinOf(S) == CHOOSE x \in S : \A y \in S : x <= y
MaxOf(S) == CHOOSE x \in S : \A y \in S : y <= x

RECURSIVE Ascending(_)
Ascending(S) == IF S = {} THEN <<>>
                ELSE <<MinOf(S)>> \o Ascending(S \ {MinOf(S)})

Range(s) == {s[i] : i \in 1..Len(s)}

\* !x for the values earliestMs and latestMs can take
Falsy(x) == x = Null \/ x = 0 \/ x = Invalid

----------------------------------------------------------------------------
(* Strings are sequences of characters *)

UPPER == <<"A","B","C","D","E","F","G","H","I","J","K","L","M",
           "N","O","P","Q","R","S","T","U","V","W","X","Y","Z">>
LOWER == <<"a","b","c","d","e","f","g","h","i","j","k","l","m",
           "n","o","p","q","r","s","t","u","v","w","x","y","z">>

LowerChar(c) == IF \E i \in 1..26 : UPPER[i] = c
                THEN LOWER[CHOOSE i \in 1..26 : UPPER[i] = c] ELSE c
UpperChar(c) == IF \E i \in 1..26 : LOWER[i] = c
                THEN UPPER[CHOOSE i \in 1..26 : LOWER[i] = c] ELSE c

toLowerCase(s) == [i \in 1..Len(s) |-> LowerChar(s[i])]
toUpperCase(s) == [i \in 1..Len(s) |-> UpperChar(s[i])]

\* String.prototype.includes
includes(s, k) ==
    \E i \in 0..(Len(s) - Len(k)) : SubSeq(s, i + 1, i + Len(k)) = k

EXCLUDED_KEYWORDS == << <<"w","r","a","p","p","e","d">>,
                        <<"s","t","a","k","e","d">>,
                        <<"W","E","T","H">> >>

USDT == <<"U","S","D","T">>

\* line 91: the predicate of the first filter
NameKept(s) ==
    ~ \E i \in 1..Len(EXCLUDED_KEYWORDS) :
          includes(toLowerCase(s.name), EXCLUDED_KEYWORDS[i])

\* line 92
PairId(s) == toUpperCase(s.symbol) \o USDT

\* line 93
PairValid(sym, vp) == IF vp.loaded THEN sym \in vp.set ELSE TRUE

\* lines 90-93
BuildPairs(sn, vp) ==
    LET kept   == SelectSeq(sn, NameKept)
        mapped == [i \in 1..Len(kept) |-> PairId(kept[i])]
    IN  SelectSeq(mapped, LAMBDA sym : PairValid(sym, vp))

----------------------------------------------------------------------------
(* The window planner, lines 124-135 *)

Window(f, t) == [from |-> f, to |-> t]

FullOrBackfill(e, gs, n) ==
    IF Falsy(e) THEN <<Window(gs, n)>>
    ELSE IF e > gs + ONE_DAY_MS THEN <<Window(gs, e - ONE_DAY_MS)>>
    ELSE <<>>

\* the update window without the test that latestMs is present
UpdateWithoutNullTest(l, n) ==
    IF l + ONE_DAY_MS < n THEN <<Window(l + ONE_DAY_MS, n)>>
    ELSE <<>>

\* the update window with <= for <
UpdateOffByOne(l, n) ==
    IF ~Falsy(l) /\ l + ONE_DAY_MS <= n THEN <<Window(l + ONE_DAY_MS, n)>>
    ELSE <<>>

Update(l, n) ==
    IF ~Falsy(l) /\ l + ONE_DAY_MS < n THEN <<Window(l + ONE_DAY_MS, n)>>
    ELSE <<>>

Plan(e, l, n, gs) == FullOrBackfill(e, gs, n) \o Update(l, n)

----------------------------------------------------------------------------
(* The remote API and one iteration of the loop of fetchKlines *)

\* GET /klines: the rows held with startTime <= open_time <= endTime, ascending,
\* at most `limit` of them
Page(h, s, e) ==
    LET rows == Ascending({t \in h : s <= t /\ t <= e})
    IN  SubSeq(rows, 1, Min(Thousand, Len(rows)))

\* a response whose last row has no open_time
Malformed(p) ==
    IF p = <<>> THEN <<Invalid>> ELSE SubSeq(p, 1, Len(p) - 1) \o <<Invalid>>

\* what one request can be answered with
Responses(h, s, e) ==
    { [kind |-> "array",     rows |-> Page(h, s, e)],
      [kind |-> "malformed", rows |-> Malformed(Page(h, s, e))],
      [kind |-> "notOk",     rows |-> <<>>],
      [kind |-> "notArray",  rows |-> <<>>],
      [kind |-> "throw",     rows |-> <<>>] }

IsArray(r) == r.kind \in {"array", "malformed"}

\* line 22
ChunkEnd(c, e) == Min(e, c + Thousand * ONE_DAY_MS)

\* the cursor set to the last row itself
NextCursorOnLastRow(klines) ==
    IF klines[Len(klines)] = Invalid THEN Invalid
    ELSE klines[Len(klines)]

\* line 44
NextCursor(klines) ==
    IF klines[Len(klines)] = Invalid THEN Invalid
    ELSE klines[Len(klines)] + ONE_DAY_MS

\* line 21
LoopRuns(c, e) == c # Invalid /\ c < e

\* the accumulated rows dropped when a request fails
OnFailureDropsRows(acc) == <<>>

\* lines 35, 40, 47: what is kept of the accumulated rows when a request fails
OnFailure(acc) == acc

\* lines 32-48: the state of the loop after the response r
Iterate(c, acc, e, r) ==
    IF ~IsArray(r)
    THEN [cursor |-> c, all |-> OnFailure(acc), running |-> FALSE]
    ELSE IF Len(r.rows) < Thousand
    THEN [cursor |-> c, all |-> acc \o r.rows, running |-> FALSE]
    ELSE [cursor  |-> NextCursor(r.rows),
          all     |-> acc \o r.rows,
          running |-> LoopRuns(NextCursor(r.rows), e)]

----------------------------------------------------------------------------
(* Timestamps in the store: Date.prototype.toISOString and Date.getTime *)

toISOString(t) == [day |-> t \div ONE_DAY_MS, time |-> t % ONE_DAY_MS]
getTime(iso)   == iso.day * ONE_DAY_MS + iso.time

\* lines 144-154: mapping a row throws when its open_time is no valid date
MappingThrows(klines) == \E i \in 1..Len(klines) : klines[i] = Invalid
Records(klines)       == {toISOString(klines[i]) : i \in 1..Len(klines)}

----------------------------------------------------------------------------
(* Inputs of a run *)

Day(d)     == d * ONE_DAY_MS
Days(a, b) == {Day(d) : d \in a..b}

HorizonDays == 5 * DaysPerYear
LastDay     == HorizonDays + 2

\* Date.now(): a day-aligned instant and one that is not
NowChoices == {Day(LastDay), Day(LastDay) + 1}

Coin(sy, nm) == [symbol |-> sy, name |-> nm]

Bitcoin        == Coin(<<"b","t","c">>, <<"B","i","t","c","o","i","n">>)
Ethereum       == Coin(<<"E","T","H">>, <<"E","t","h","e","r","e","u","m">>)
WrappedBitcoin == Coin(<<"w","b","t","c">>,
                       <<"W","r","a","p","p","e","d"," ","B","i","t","c","o","i","n">>)
WRAPPEDBitcoin == Coin(<<"w","b","t","c">>,
                       <<"W","R","A","P","P","E","D"," ","B","T","C">>)
StakedEther    == Coin(<<"s","t","e","t","h">>,
                       <<"L","i","d","o"," ","S","t","a","k","e","d"," ","E","t","h","e","r">>)
WETH           == Coin(<<"w","e","t","h">>, <<"W","E","T","H">>)

Candidates == {Bitcoin, Ethereum, WrappedBitcoin, WRAPPEDBitcoin, StakedEther, WETH}

\* results of the snapshot query
SnapLists == { <<>>,
               <<Bitcoin, WrappedBitcoin, Ethereum>>,
               <<WRAPPEDBitcoin, StakedEther, Bitcoin>>,
               <<WETH, Bitcoin>> }

AllPairIds == {PairId(c) : c \in Candidates}

\* the symbols of exchangeInfo, live and in the local file
ExchangeSymbols == {PairId(Bitcoin), PairId(Ethereum), PairId(WrappedBitcoin)}

\* the open_time stored for a pair before the run
StoredSets == { {},
                {toISOString(t) : t \in Days(4, 5)},
                {toISOString(t) : t \in Days(3, LastDay)} }

\* the open_time the remote holds for a pair
HeldSets == { {}, Days(0, LastDay), Days(LastDay - 1, LastDay) }

----------------------------------------------------------------------------
(* fetchKlines on its own: FetchSpec *)

\* lines 21-48, one iteration: the request, the response r and what follows
FetchStep(r) ==
    LET it == Iterate(cursor, all, endTime, r)
    IN  /\ cursor' = it.cursor
        /\ all' = it.all
        /\ reqs' = Append(reqs, [startTime |-> cursor,
                                 endTime   |-> ChunkEnd(cursor, endTime)])
        /\ resps' = Append(resps, r)
        /\ failedAt' = IF IsArray(r) THEN failedAt ELSE Len(reqs) + 1

RequestKlines ==
    /\ pc = "fetch"
    /\ \E r \in Responses(held[symbol], cursor, ChunkEnd(cursor, endTime)) :
          /\ FetchStep(r)
          /\ pc' = IF Iterate(cursor, all, endTime, r).running
                   THEN "fetch" ELSE "returned"
    /\ UNCHANGED <<handlerVars, held, symbol, startTime, endTime>>

\* nothing of a run has happened
RunIdle ==
    /\ validPairs = [loaded |-> FALSE, set |-> {}]
    /\ snaps = <<>> /\ snapFailed = FALSE /\ pairs = <<>>
    /\ si = 0 /\ ti = 0
    /\ responses = <<>> /\ log = <<>> /\ rangeFailed = {}

HandlerIdle ==
    /\ RunIdle
    /\ globalStart = Null
    /\ earliestMs = Null /\ latestMs = Null
    /\ tasks = <<>>

FetchIdle ==
    /\ symbol = <<>> /\ startTime = Null /\ endTime = Null /\ cursor = Null
    /\ all = <<>> /\ reqs = <<>> /\ resps = <<>> /\ failedAt = 0

FetchInit ==
    /\ HandlerIdle
    /\ now = Null
    /\ store = [p \in AllPairIds |-> {}]
    /\ symbol = PairId(Bitcoin)
    /\ \E H \in SUBSET Days(0, MaxDays) : held = [p \in AllPairIds |-> H]
    /\ startTime \in 0..Day(MaxDays)
    /\ endTime \in 0..Day(MaxDays)
    /\ startTime < endTime
    /\ cursor = startTime
    /\ all = <<>> /\ reqs = <<>> /\ resps = <<>> /\ failedAt = 0
    /\ pc = IF LoopRuns(startTime, endTime) THEN "fetch" ELSE "returned"

FetchNext == RequestKlines

FetchSpec == FetchInit /\ [][FetchNext]_vars

----------------------------------------------------------------------------
(* The planner on its own: PlanSpec *)

\* instants a range query can yield around the horizon gs .. n, and none
PlanInstants(gs, n) == {Null} \cup {t \in (gs - ONE_DAY_MS)..(n + ONE_DAY_MS) : t > 0}

\* the instants of the scenario with globalStart = day 0 and now = day 250
ScenarioInstants == {Null} \cup {Day(d) : d \in {1, 2, 99, 100, 101, 199, 200, 249, 250}}

PlanInit ==
    /\ RunIdle
    /\ tasks = <<>>
    /\ FetchIdle
    /\ store = [p \in AllPairIds |-> {}]
    /\ held = [p \in AllPairIds |-> {}]
    /\ \/ /\ now \in NowChoices
          /\ globalStart = now - FIVE_YEARS_MS
          /\ earliestMs \in PlanInstants(globalStart, now)
          /\ latestMs \in PlanInstants(globalStart, now)
       \/ /\ now = Day(250)
          /\ globalStart = 0
          /\ earliestMs \in ScenarioInstants
          /\ latestMs \in ScenarioInstants
    /\ (earliestMs # Null /\ latestMs # Null) => earliestMs <= latestMs
    /\ pc = "plan"

\* lines 124-135
PlanWindows ==
    /\ pc = "plan"
    /\ tasks' = Plan(earliestMs, latestMs, now, globalStart)
    /\ pc' = "planned"
    /\ UNCHANGED <<validPairs, snaps, snapFailed, pairs, now, globalStart, si,
                   earliestMs, latestMs, ti, store, held, responses, log,
                   rangeFailed, fetchVars>>

PlanNext == PlanWindows

PlanSpec == PlanInit /\ [][PlanNext]_vars

----------------------------------------------------------------------------
(* handler: Spec *)

Init ==
    /\ HandlerIdle
    /\ FetchIdle
    /\ pc = "exchangeInfo"
    /\ now \in NowChoices
    /\ \E S \in StoredSets : store = [p \in AllPairIds |-> S]
    /\ \E H \in HeldSets : held = [p \in AllPairIds |-> H]

Call(op, sym) == [op |-> op, symbol |-> sym]

Ok(n)       == [status |-> 200, body |-> "ok", processed |-> n]
Error(what) == [status |-> 500, body |-> what, processed |-> Null]

\* the first window at or after position k that the loop of fetchKlines enters;
\* for the others fetchKlines returns [] at once and line 142 continues
RECURSIVE FirstRunnable(_, _)
FirstRunnable(tks, k) ==
    IF k > Len(tks) \/ LoopRuns(tks[k].from, tks[k].to) THEN k
    ELSE FirstRunnable(tks, k + 1)

\* lines 138-139, 99-111 and 163-164: control after the windows before position k
\* of the current symbol are over, up to the next await or the response
Proceed(e, l, tks, k) ==
    LET j == FirstRunnable(tks, k)
    IN  IF j <= Len(tks)
        THEN /\ pc' = "klines"
             /\ si' = si /\ ti' = j
             /\ earliestMs' = e /\ latestMs' = l /\ tasks' = tks
             /\ symbol' = pairs[si]
             /\ startTime' = tks[j].from /\ endTime' = tks[j].to
             /\ cursor' = tks[j].from
             /\ all' = <<>> /\ reqs' = <<>> /\ resps' = <<>> /\ failedAt' = 0
             /\ responses' = responses
        ELSE IF si < Len(pairs)
        THEN /\ pc' = "earliest"
             /\ si' = si + 1 /\ ti' = 0
             /\ earliestMs' = Null /\ latestMs' = Null /\ tasks' = <<>>
             /\ responses' = responses
             /\ UNCHANGED fetchVars
        ELSE /\ pc' = "done"
             /\ si' = si /\ ti' = j
             /\ earliestMs' = e /\ latestMs' = l /\ tasks' = tks
             /\ responses' = Append(responses, Ok(Len(pairs)))
             /\ UNCHANGED fetchVars

\* lines 58-66: the live exchangeInfo
FetchExchangeInfo ==
    /\ pc = "exchangeInfo"
    /\ \E ok \in BOOLEAN :
          IF ok
          THEN /\ validPairs' = [loaded |-> TRUE, set |-> ExchangeSymbols]
               /\ pc' = "snapshot"
          ELSE /\ validPairs' = validPairs
               /\ pc' = "localFile"
    /\ UNCHANGED <<snaps, snapFailed, pairs, now, globalStart, si, earliestMs,
                   latestMs, tasks, ti, store, held, responses, log,
                   rangeFailed, fetchVars>>

\* lines 67-77: the local exchangeInfo.json
ReadLocalExchangeInfo ==
    /\ pc = "localFile"
    /\ \E ok \in BOOLEAN :
          validPairs' = IF ok THEN [loaded |-> TRUE, set |-> ExchangeSymbols]
                        ELSE validPairs
    /\ pc' = "snapshot"
    /\ UNCHANGED <<snaps, snapFailed, pairs, now, globalStart, si, earliestMs,
                   latestMs, tasks, ti, store, held, responses, log,
                   rangeFailed, fetchVars>>

\* lines 81-86 and 165-167: the snapshot query fails
SnapshotFails ==
    /\ pc = "snapshot"
    /\ snapFailed' = TRUE
    /\ responses' = Append(responses, Error("snapErr"))
    /\ pc' = "done"
    /\ UNCHANGED <<validPairs, snaps, pairs, now, globalStart, si, earliestMs,
                   latestMs, tasks, ti, store, held, log, rangeFailed,
                   fetchVars>>

\* lines 81-111: the snapshot query answers
LoadSnapshots ==
    /\ pc = "snapshot"
    /\ \E sn \in SnapLists :
          /\ snaps' = sn
          /\ pairs' = BuildPairs(sn, validPairs)
          /\ globalStart' = now - FIVE_YEARS_MS
          /\ IF BuildPairs(sn, validPairs) = <<>>
             THEN /\ pc' = "done" /\ si' = si
                  /\ responses' = Append(responses, Ok(0))
             ELSE /\ pc' = "earliest" /\ si' = 1
                  /\ responses' = responses
    /\ UNCHANGED <<validPairs, snapFailed, now, earliestMs, latestMs, tasks,
                   ti, store, held, log, rangeFailed, fetchVars>>

\* lines 105-112: failed = the store or the transport fails; with no row stored
\* single() reports an error as well
QueryEarliest ==
    /\ pc = "earliest"
    /\ \E failed \in BOOLEAN :
          /\ earliestMs' = IF failed \/ store[pairs[si]] = {} THEN Null
                           ELSE MinOf({getTime(r) : r \in store[pairs[si]]})
          /\ rangeFailed' = IF failed THEN rangeFailed \cup {pairs[si]}
                            ELSE rangeFailed
    /\ log' = Append(log, Call("earliest", pairs[si]))
    /\ pc' = "latest"
    /\ UNCHANGED <<validPairs, snaps, snapFailed, pairs, now, globalStart, si,
                   latestMs, tasks, ti, store, held, responses, fetchVars>>

\* lines 114-139
QueryLatest ==
    /\ pc = "latest"
    /\ \E failed \in BOOLEAN :
          LET l == IF failed \/ store[pairs[si]] = {} THEN Null
                   ELSE MaxOf({getTime(r) : r \in store[pairs[si]]})
          IN  /\ rangeFailed' = IF failed THEN rangeFailed \cup {pairs[si]}
                                ELSE rangeFailed
              /\ Proceed(earliestMs, l, Plan(earliestMs, l, now, globalStart), 1)
    /\ log' = Append(log, Call("latest", pairs[si]))
    /\ UNCHANGED <<validPairs, snaps, snapFailed, pairs, now, globalStart,
                   store, held>>

\* lines 21-48 and 139-157: one request of fetchKlines; when the loop ends, the
\* handler goes on to the next window, to the upsert, or throws in the mapping
Klines ==
    /\ pc = "klines"
    /\ \E r \in Responses(held[symbol], cursor, ChunkEnd(cursor, endTime)) :
          LET it == Iterate(cursor, all, endTime, r)
          IN  IF it.running
              THEN /\ FetchStep(r)
                   /\ pc' = "klines"
                   /\ UNCHANGED <<si, ti, earliestMs, latestMs, tasks,
                                  responses, symbol, startTime, endTime>>
              ELSE IF it.all = <<>>
              THEN Proceed(earliestMs, latestMs, tasks, ti + 1)
              ELSE IF MappingThrows(it.all)
              THEN /\ FetchStep(r)
                   /\ pc' = "done"
                   /\ responses' = Append(responses, Error("Invalid time value"))
                   /\ UNCHANGED <<si, ti, earliestMs, latestMs, tasks, symbol,
                                  startTime, endTime>>
              ELSE /\ FetchStep(r)
                   /\ pc' = "upsert"
                   /\ UNCHANGED <<si, ti, earliestMs, latestMs, tasks,
                                  responses, symbol, startTime, endTime>>
    /\ log' = Append(log, Call("klines", symbol))
    /\ UNCHANGED <<validPairs, snaps, snapFailed, pairs, now, globalStart,
                   store, held, rangeFailed>>

\* lines 155-159, then the next window or symbol
Upsert ==
    /\ pc = "upsert"
    /\ \E upErr \in BOOLEAN :
          store' = IF upErr THEN store
                   ELSE [store EXCEPT ![symbol] = @ \cup Records(all)]
    /\ Proceed(earliestMs, latestMs, tasks, ti + 1)
    /\ log' = Append(log, Call("upsert", symbol))
    /\ UNCHANGED <<validPairs, snaps, snapFailed, pairs, now, globalStart,
                   held, rangeFailed>>

Next ==
    \/ FetchExchangeInfo
    \/ ReadLocalExchangeInfo
    \/ SnapshotFails
    \/ LoadSnapshots
    \/ QueryEarliest
    \/ QueryLatest
    \/ Klines
    \/ Upsert

Spec == Init /\ [][Next]_vars

----------------------------------------------------------------------------
(* Properties of fetchKlines, under FetchSpec *)

InWindow(h, f, t) == {x \in h : f <= x /\ x <= t}

NoRequestFailed == \A i \in 1..Len(resps) : resps[i].kind = "array"

\* C1: when no request fails and each response is the page the remote holds for
\* the requested range, fetchKlines returns every row the remote holds with
\* open_time in the window.
FetchCompleteness ==
    (pc = "returned" /\ NoRequestFailed)
        => Range(all) = InWindow(held[symbol], startTime, endTime)

CeilDiv(a, b) == (a + b - 1) \div b

MaxRequests == CeilDiv(endTime - startTime, Thousand * ONE_DAY_MS)

RECURSIVE Concatenated(_, _)
Concatenated(rs, n) ==
    IF n = 0 THEN <<>> ELSE Concatenated(rs, n - 1) \o rs[n].rows

\* C6: when the k-th request fails (status not ok, body not an array, transport
\* error) fetchKlines issues no further request and returns, without raising, the
\* rows of the k-1 earlier responses in the order received.
PartialResultOnFailure ==
    failedAt # 0 =>
        /\ pc = "returned"
        /\ Len(reqs) = failedAt
        /\ all = Concatenated(resps, failedAt - 1)

\* the second request fails after a first full page
PartialResultWitness ==
    /\ pc = "returned"
    /\ failedAt = 2
    /\ Len(all) = Thousand

----------------------------------------------------------------------------
(* Properties of the planner *)

Planned == pc \in {"klines", "upsert"}

Overlap(a, b) == a.from <= b.to /\ b.from <= a.to

\* C3: every planned window has from < to, no two planned windows overlap, and no
\* planned window intersects the interval (earliestMs, latestMs) already stored.
WindowsWellFormedAndDisjoint ==
    Planned =>
        /\ \A i \in 1..Len(tasks) : tasks[i].from < tasks[i].to
        /\ \A i, j \in 1..Len(tasks) : i < j => ~Overlap(tasks[i], tasks[j])
        /\ (earliestMs # Null /\ latestMs # Null) =>
              \A i \in 1..Len(tasks) :
                  tasks[i].to <= earliestMs \/ latestMs <= tasks[i].from

\* C4: with earliestMs and latestMs both null the plan is exactly the one window
\* from globalStart to now, which is 5 x 365 days long and ends at now.
NoStoredDataFullWindow ==
    (Planned /\ earliestMs = Null /\ latestMs = Null) =>
        /\ tasks = <<[from |-> globalStart, to |-> now]>>
        /\ tasks[1].to - tasks[1].from = 5 * DaysPerYear * ONE_DAY_MS
        /\ tasks[1].to = now

\* a symbol without stored rows, its full window being fetched
NoStoredDataWitness ==
    /\ pc = "klines"
    /\ store[symbol] = {}
    /\ earliestMs = Null /\ latestMs = Null
    /\ rangeFailed = {}
    /\ Len(tasks) = 1
    /\ startTime = globalStart /\ endTime = now

BackfillExpected ==
    IF earliestMs > globalStart + ONE_DAY_MS
    THEN <<[from |-> globalStart, to |-> earliestMs - ONE_DAY_MS]>> ELSE <<>>

UpdateExpected ==
    IF latestMs + ONE_DAY_MS < now
    THEN <<[from |-> latestMs + ONE_DAY_MS, to |-> now]>> ELSE <<>>

\* C5: with earliestMs <= latestMs both present, the plan is the backfill window
\* {globalStart, earliestMs - 1 day} iff earliestMs > globalStart + 1 day, followed
\* by the update window {latestMs + 1 day, now} iff latestMs + 1 day < now; a fully
\* covered symbol yields no window, and data from day 100 to day 200 with
\* globalStart = day 0 and now = day 250 yields [{0,99},{201,250}].
PlanWithStoredData ==
    (pc = "planned" /\ earliestMs # Null /\ latestMs # Null) =>
        /\ tasks = BackfillExpected \o UpdateExpected
        /\ (earliestMs <= globalStart + ONE_DAY_MS /\ latestMs >= now - ONE_DAY_MS)
              => tasks = <<>>
        /\ (globalStart = 0 /\ now = Day(250)
                /\ earliestMs = Day(100) /\ latestMs = Day(200))
              => tasks = <<[from |-> 0, to |-> Day(99)],
                           [from |-> Day(201), to |-> Day(250)]>>

\* the scenario of day 100 to day 200
PlanScenarioWitness ==
    /\ pc = "planned"
    /\ globalStart = 0 /\ now = Day(250)
    /\ earliestMs = Day(100) /\ latestMs = Day(200)
    /\ Len(tasks) = 2

----------------------------------------------------------------------------
(* Properties of a run of the handler *)

SnapshotsLoaded == pc \notin {"exchangeInfo", "localFile", "snapshot"} /\ ~snapFailed

\* the name contains a blocklisted substring, letter case ignored on both sides
Blocklisted(name) ==
    \E i \in 1..Len(EXCLUDED_KEYWORDS) :
        includes(toLowerCase(name), toLowerCase(EXCLUDED_KEYWORDS[i]))

NotBlocklisted(s) == ~Blocklisted(s.name)

\* C7: a candidate is dropped iff its name contains, compared case-insensitively,
\* one of the blocklisted substrings (wrapped, staked, WETH); the pair id is built
\* and the validPairs test applied on what the name filter keeps.
NameFilterCaseInsensitive ==
    SnapshotsLoaded =>
        LET kept   == SelectSeq(snaps, NotBlocklisted)
            mapped == [i \in 1..Len(kept) |-> PairId(kept[i])]
        IN  pairs = SelectSeq(mapped, LAMBDA sym : PairValid(sym, validPairs))

IsRangeOrFetchOrUpsert(c) == c.op \in {"earliest", "latest", "klines", "upsert"}

\* C8: one response per run; it is 500 iff the snapshot query failed, and then no
\* range query, klines request or upsert was issued; otherwise it is 200 with
\* processed = the number of target pairs.
OneResponsePerRun ==
    /\ Len(responses) = (IF pc = "done" THEN 1 ELSE 0)
    /\ pc = "done" =>
          /\ responses[1].status = 500 <=> snapFailed
          /\ snapFailed => SelectSeq(log, IsRangeOrFetchOrUpsert) = <<>>
          /\ ~snapFailed => responses[1] = Ok(Len(pairs))

IsEarliest(c) == c.op = "earliest"

\* the symbols whose processing began, in order
Processed ==
    LET first == SelectSeq(log, IsEarliest)
    IN  [i \in 1..Len(first) |-> first[i].symbol]

\* C9: once the candidates are loaded every target pair is processed exactly once,
\* in list order, whatever failed for an earlier symbol or window.
EveryPairProcessedInOrder ==
    (pc = "done" /\ ~snapFailed) => Processed = pairs

\* C10: a symbol one of whose range queries failed with a store error is skipped:
\* no window is planned, no klines request sent and no upsert performed for it.
RangeFailureSkipsSymbol ==
    /\ \A i \in 1..Len(log) :
          log[i].op \in {"klines", "upsert"} => log[i].symbol \notin rangeFailed
    /\ Planned => pairs[si] \notin rangeFailed

====
